---------------------------- MODULE Spec2Model ----------------------------
(***************************************************************************)
(* Rooster calendar sync: the change-aware sync pipeline.                  *)
(*                                                                         *)
(*   scripts/excel_parser.py     spreadsheet -> snapshot (filename ->      *)
(*                               Employee)                                 *)
(*   scripts/ics_generator.py    Employee -> calendar document             *)
(*   scripts/change_detector.py  persisted state, hashes, archive          *)
(*   scripts/rooster_sync.py     run_sync, the orchestrator                *)
(*                                                                         *)
(* Text is a sequence of one-character strings (<<"J","o">> is "Jo"), so   *)
(* that lower(), strip(), re.sub() and title() are computed character by   *)
(* character as Python computes them.  A date is its spreadsheet serial    *)
(* number (days since 1899-12-30).  MD5 is modelled as collision-free: the *)
(* digest of x is the tagged value <<"md5", x>>.                          *)
(***************************************************************************)
EXTENDS Integers, Sequences, FiniteSets, TLC

(***************************************************************************)
(* Text                                                                    *)
(***************************************************************************)

LowerOf ==
    [A |-> "a", B |-> "b", C |-> "c", D |-> "d", E |-> "e", F |-> "f",
     G |-> "g", H |-> "h", I |-> "i", J |-> "j", K |-> "k", L |-> "l",
     M |-> "m", N |-> "n", O |-> "o", P |-> "p", Q |-> "q", R |-> "r",
     S |-> "s", T |-> "t", U |-> "u", V |-> "v", W |-> "w", X |-> "x",
     Y |-> "y", Z |-> "z"]

UpperOf ==
    [a |-> "A", b |-> "B", c |-> "C", d |-> "D", e |-> "E", f |-> "F",
     g |-> "G", h |-> "H", i |-> "I", j |-> "J", k |-> "K", l |-> "L",
     m |-> "M", n |-> "N", o |-> "O", p |-> "P", q |-> "Q", r |-> "R",
     s |-> "S", t |-> "T", u |-> "U", v |-> "V", w |-> "W", x |-> "X",
     y |-> "Y", z |-> "Z"]

LowerLetters == DOMAIN UpperOf
UpperLetters == DOMAIN LowerOf
DigitChars == {"0", "1", "2", "3", "4", "5", "6", "7", "8", "9"}
SpaceChars == {" ", "\t", "\n"}

LowerChar(c) == IF c \in UpperLetters THEN LowerOf[c] ELSE c
UpperChar(c) == IF c \in LowerLetters THEN UpperOf[c] ELSE c

\* str.lower(), str.upper()
StrLower(s) == [i \in 1..Len(s) |-> LowerChar(s[i])]
StrUpper(s) == [i \in 1..Len(s) |-> UpperChar(s[i])]

\* str.strip(): leading and trailing whitespace removed
RECURSIVE LStrip(_)
LStrip(s) ==
    IF s # <<>> /\ Head(s) \in SpaceChars THEN LStrip(Tail(s)) ELSE s

RECURSIVE RStrip(_)
RStrip(s) ==
    IF s # <<>> /\ s[Len(s)] \in SpaceChars
    THEN RStrip(SubSeq(s, 1, Len(s) - 1))
    ELSE s

Strip(s) == RStrip(LStrip(s))

\* str.startswith(prefix)
StartsWith(s, prefix) ==
    /\ Len(s) >= Len(prefix)
    /\ SubSeq(s, 1, Len(prefix)) = prefix

\* str.endswith(suffix)
EndsWith(s, suffix) ==
    /\ Len(s) >= Len(suffix)
    /\ SubSeq(s, Len(s) - Len(suffix) + 1, Len(s)) = suffix

\* re.sub(r'\s+', '_', s): every maximal run of whitespace becomes one "_"
RECURSIVE SubSpaceRuns(_)
SubSpaceRuns(s) ==
    IF s = <<>> THEN <<>>
    ELSE IF Head(s) \in SpaceChars
         THEN <<"_">> \o SubSpaceRuns(LStrip(s))
         ELSE <<Head(s)>> \o SubSpaceRuns(Tail(s))

\* re.sub(r'[^a-z0-9_]', '', s): every other character is removed
KeepSafeChars(s) ==
    SelectSeq(s, LAMBDA c : c \in LowerLetters \cup DigitChars \cup {"_"})

\* re.sub(r'[^a-z0-9]', '_', s): every other character becomes "_"
SubUnsafeChars(s) ==
    [i \in 1..Len(s) |->
        IF s[i] \in LowerLetters \cup DigitChars THEN s[i] ELSE "_"]

\* str.title(): a letter is upper-cased after a non-letter (or at the start)
\* and lower-cased after a letter
StrTitle(s) ==
    [i \in 1..Len(s) |->
        IF i = 1 \/ s[i - 1] \notin (LowerLetters \cup UpperLetters)
        THEN UpperChar(s[i])
        ELSE LowerChar(s[i])]

\* str.replace("_", " ")
ReplaceUnderscores(s) == [i \in 1..Len(s) |-> IF s[i] = "_" THEN " " ELSE s[i]]

IcsSuffix == <<".", "i", "c", "s">>

\* filename[:-4]
DropSuffix4(s) == SubSeq(s, 1, Len(s) - 4)

\* Python's None, and the falsy test "if not x" on a cell (None and "" alike)
None == <<>>

(***************************************************************************)
(* excel_parser.py                                                         *)
(***************************************************************************)

\* Employee.filename
EmployeeFilename(name) ==
    KeepSafeChars(SubSpaceRuns(Strip(StrLower(name)))) \o IcsSuffix

PLOEG == <<"P", "L", "O", "E", "G">>

GroupHeaders ==
    { <<"S","A","M","P","L","E"," ","R","E","T","A","I","N"," ",
        "A","S","S","I","S","T","A","N","T","S">>,
      <<"D","A","Y"," ","T","I","M","E"," ","S","U","P","P","O","R","T">>,
      <<"I","N","T","E","R","N","S">>,
      <<"0","H"," ","C","O","N","T","R","A","C","T","S">> }

NameHeaders ==
    { <<"N","A","M","E">>, <<"N","A","A","M">>,
      <<"E","M","P","L","O","Y","E","E">> }

\* the test of _parse_employees on the group cell
IsGroupHeader(group_str) ==
    \/ StartsWith(StrUpper(group_str), PLOEG)
    \/ StrUpper(group_str) \in GroupHeaders

\* the formats _parse_dates tries on a string cell, in order
DateFormats == <<"%Y-%m-%d", "%d-%m-%Y", "%d/%m/%Y", "%m/%d/%Y">>

\* A header cell is None, a datetime, a number or a string.  A string cell
\* carries, for each format strptime accepts it under, the date it yields.
NoDate == -1

RECURSIVE FirstFormat(_, _)
FirstFormat(parses, k) ==
    IF k > Len(DateFormats) THEN NoDate
    ELSE IF DateFormats[k] \in DOMAIN parses THEN parses[DateFormats[k]]
    ELSE FirstFormat(parses, k + 1)

ParseDateCell(cell) ==
    CASE cell.kind = "none" -> NoDate
      [] cell.kind = "datetime" -> cell.v
      [] cell.kind = "number" -> cell.v
      [] cell.kind = "string" -> FirstFormat(cell.parses, 1)

\* ExcelParser._parse_dates: column -> date, for the columns that parse
ParseDates(header) ==
    LET cols == {c \in 1..Len(header) : ParseDateCell(header[c]) # NoDate}
    IN [c \in cols |-> ParseDateCell(header[c])]

\* the columns of a dict in insertion order (ascending: the scan is left to
\* right)
RECURSIVE ColumnsInOrder(_, _)
ColumnsInOrder(cols, from) ==
    IF cols = {} THEN <<>>
    ELSE IF from \in cols
         THEN <<from>> \o ColumnsInOrder(cols \ {from}, from + 1)
         ELSE ColumnsInOrder(cols, from + 1)

\* the inner loop of _parse_employees: the recognized shifts of one row
RECURSIVE ParseShifts(_, _, _, _)
ParseShifts(cells, dates, order, config) ==
    IF order = <<>> THEN <<>>
    ELSE
        LET col == Head(order)
            cell_value == cells[col]
            code == StrUpper(Strip(cell_value))
            rest == ParseShifts(cells, dates, Tail(order), config)
        IN  IF cell_value = None THEN rest
            ELSE IF code \in config.ignore_codes \/ code = <<>> THEN rest
            ELSE IF code \in (DOMAIN config.timed_shifts
                                \cup DOMAIN config.allday_events)
                 THEN <<[date |-> dates[col], code |-> code]>> \o rest
                 ELSE rest

\* a dict that keeps insertion order: a sequence of [key, value]; d[k] = v
\* replaces the value in place when k is present and appends otherwise
DictKeys(d) == {d[i].key : i \in 1..Len(d)}

DictGet(d, k) == d[CHOOSE i \in 1..Len(d) : d[i].key = k].value

DictPut(d, k, v) ==
    IF k \in DictKeys(d)
    THEN [i \in 1..Len(d) |-> IF d[i].key = k THEN [key |-> k, value |-> v]
                                              ELSE d[i]]
    ELSE Append(d, [key |-> k, value |-> v])

\* the key an employee row is stored under, and the Employee stored
StoreEmployee(employees, name, current_group, shifts) ==
    LET filename == EmployeeFilename(name)
    IN  IF filename \in DictKeys(employees)
        THEN LET safe_group == SubUnsafeChars(StrLower(current_group))
             IN  DictPut(employees,
                         DropSuffix4(filename) \o <<"_">> \o safe_group
                             \o IcsSuffix,
                         [name |-> name \o <<" ", "(">> \o current_group
                                       \o <<")">>,
                          group |-> current_group,
                          shifts |-> shifts])
        ELSE DictPut(employees, filename,
                     [name |-> name, group |-> current_group,
                      shifts |-> shifts])

\* the key StoreEmployee stores an employee row under: the filename of the
\* name, extended with the normalized current group when that filename is
\* taken
StoredKey(employees, name, current_group) ==
    LET filename == EmployeeFilename(name)
    IN  IF filename \in DictKeys(employees)
        THEN DropSuffix4(filename) \o <<"_">>
                 \o SubUnsafeChars(StrLower(current_group)) \o IcsSuffix
        ELSE filename

\* a scan that skips a row whose name looks like a group header without
\* taking the name for the current group: not the program's,
\* GroupFromMarkers tells the two apart
ScanRow_NameSkipped(employees, current_group, row, dates, config) ==
    LET group_str == Strip(row.group)
        name == Strip(row.name)
        skipped == [employees |-> employees,
                    current_group |-> current_group, key |-> None]
    IN  IF row.group # None /\ IsGroupHeader(group_str)
        THEN [skipped EXCEPT !.current_group = group_str]
        ELSE IF row.name = None
        THEN skipped
        ELSE IF name = <<>> \/ StrUpper(name) \in NameHeaders
        THEN skipped
        ELSE IF StartsWith(StrUpper(name), PLOEG)
        THEN skipped
        ELSE
            LET shifts == ParseShifts(row.cells, dates,
                              ColumnsInOrder(DOMAIN dates, 1), config)
            IN  IF shifts # <<>>
                THEN [employees |-> StoreEmployee(employees, name,
                                                  current_group, shifts),
                      current_group |-> current_group,
                      key |-> StoredKey(employees, name, current_group)]
                ELSE skipped

\* ExcelParser._parse_employees, one iteration of the row loop: the dict and
\* the current group after the row, and the key the row was stored under
\* (None when the row stored no employee)
ScanRow(employees, current_group, row, dates, config) ==
    LET group_str == Strip(row.group)
        name == Strip(row.name)
        skipped == [employees |-> employees,
                    current_group |-> current_group, key |-> None]
    IN  IF row.group # None /\ IsGroupHeader(group_str)
        THEN [skipped EXCEPT !.current_group = group_str]
        ELSE IF row.name = None
        THEN skipped
        ELSE IF name = <<>> \/ StrUpper(name) \in NameHeaders
        THEN skipped
        ELSE IF StartsWith(StrUpper(name), PLOEG)
        THEN [skipped EXCEPT !.current_group = name]
        ELSE
            LET shifts == ParseShifts(row.cells, dates,
                              ColumnsInOrder(DOMAIN dates, 1), config)
            IN  IF shifts # <<>>
                THEN [employees |-> StoreEmployee(employees, name,
                                                  current_group, shifts),
                      current_group |-> current_group,
                      key |-> StoredKey(employees, name, current_group)]
                ELSE skipped

\* ExcelParser._parse_employees: the row scan, from row `r` on, with the
\* dict and the current group so far
RECURSIVE ParseEmployeesFrom(_, _, _, _, _, _)
ParseEmployeesFrom(rows, r, dates, config, employees, current_group) ==
    IF r > Len(rows) THEN employees
    ELSE
        LET after == ScanRow(employees, current_group, rows[r], dates,
                             config)
        IN  ParseEmployeesFrom(rows, r + 1, dates, config, after.employees,
                               after.current_group)

ParseEmployees(rows, dates, config) ==
    ParseEmployeesFrom(rows, 1, dates, config, <<>>, <<>>)

\* ExcelParser.parse / parse_excel on an existing file: the snapshot, or the
\* ValueError raised when no date header is recovered
ParseRaises(sheet) == DOMAIN ParseDates(sheet.header) = {}

ParseExcel(sheet, config) ==
    ParseEmployees(sheet.rows, ParseDates(sheet.header), config)

(***************************************************************************)
(* ics_generator.py                                                        *)
(***************************************************************************)

DigitValue ==
    "0" :> 0 @@ "1" :> 1 @@ "2" :> 2 @@ "3" :> 3 @@ "4" :> 4 @@
    "5" :> 5 @@ "6" :> 6 @@ "7" :> 7 @@ "8" :> 8 @@ "9" :> 9

\* the value of a string of one or two digits, -1 for any other string
TwoDigits(s) ==
    IF Len(s) \in {1, 2} /\ \A i \in 1..Len(s) : s[i] \in DigitChars
    THEN IF Len(s) = 1 THEN DigitValue[s[1]]
         ELSE 10 * DigitValue[s[1]] + DigitValue[s[2]]
    ELSE -1

\* datetime.strptime(s, "%H:%M").time(): <<hour, minute>>, or None where
\* strptime raises ValueError
StrpTime(s) ==
    LET colons == {i \in 1..Len(s) : s[i] = ":"}
    IN  IF Cardinality(colons) # 1 THEN None
        ELSE LET c == CHOOSE i \in colons : TRUE
                 h == TwoDigits(SubSeq(s, 1, c - 1))
                 m == TwoDigits(SubSeq(s, c + 1, Len(s)))
             IN  IF h \in 0..23 /\ m \in 0..59 THEN <<h, m>> ELSE None

\* shift.date.strftime("%Y%m%d"): a fixed-width rendering of the date, here
\* the five digits of its serial number
DigitChar(n) == CHOOSE c \in DigitChars : DigitValue[c] = n

DateStr(d) ==
    << DigitChar((d \div 10000) % 10), DigitChar((d \div 1000) % 10),
       DigitChar((d \div 100) % 10), DigitChar((d \div 10) % 10),
       DigitChar(d % 10) >>

\* hashlib.md5(x).hexdigest(), collision-free
Md5(x) == <<"md5", x>>

\* ICSGenerator._generate_uid
GenerateUid(shift, employee_name) ==
    << DateStr(shift.date), shift.code,
       Md5(employee_name \o <<"-">> \o DateStr(shift.date) \o <<"-">>
             \o shift.code) >>

\* ICSGenerator._create_timed_event; dtstamp is datetime.now(tz) at the call
CreateTimedEvent(shift, shift_config, employee_name, now_) ==
    LET start_time == StrpTime(shift_config.start)
        end_time == StrpTime(shift_config.end)
        end_day == IF shift_config.spans_midnight THEN shift.date + 1
                   ELSE shift.date
    IN  [ summary |-> shift_config.name,
          dtstart |-> <<shift.date>> \o start_time,
          dtend |-> <<end_day>> \o end_time,
          dtstamp |-> now_,
          uid |-> GenerateUid(shift, employee_name),
          description |-> <<"S","h","i","f","t"," ","c","o","d","e",":"," ">>
                             \o shift.code ]

\* ICSGenerator._create_allday_event
CreateAlldayEvent(shift, event_config, employee_name, now_) ==
    [ summary |-> event_config.name,
      dtstart |-> <<shift.date>>,
      dtend |-> <<shift.date + 1>>,
      dtstamp |-> now_,
      uid |-> GenerateUid(shift, employee_name),
      description |-> <<"C","o","d","e",":"," ">> \o shift.code ]

\* a timed shift whose start or end string strptime rejects: the
\* ValueError of _create_timed_event
TimedEventRaises(shift, config) ==
    LET code == StrUpper(shift.code)
    IN  /\ code \in DOMAIN config.timed_shifts
        /\ \/ StrpTime(config.timed_shifts[code].start) = None
           \/ StrpTime(config.timed_shifts[code].end) = None

\* ICSGenerator._create_event for each shift in order; a code in neither
\* table yields no event
RECURSIVE CreateEvents(_, _, _, _)
CreateEvents(shifts, employee_name, config, now_) ==
    IF shifts = <<>> THEN <<>>
    ELSE
        LET shift == Head(shifts)
            code == StrUpper(shift.code)
            rest == CreateEvents(Tail(shifts), employee_name, config, now_)
        IN  IF code \in DOMAIN config.timed_shifts
            THEN <<CreateTimedEvent(shift, config.timed_shifts[code],
                                    employee_name, now_)>> \o rest
            ELSE IF code \in DOMAIN config.allday_events
            THEN <<CreateAlldayEvent(shift, config.allday_events[code],
                                     employee_name, now_)>> \o rest
            ELSE rest

GenerateRaises(employee, config) ==
    \E i \in 1..Len(employee.shifts) :
        TimedEventRaises(employee.shifts[i], config)

\* ICSGenerator.generate_calendar, called at time now_
GenerateCalendar(employee, config, now_) ==
    [ calname |-> config.name_prefix \o <<" ", "-", " ">> \o employee.name,
      timezone |-> config.timezone,
      events |-> CreateEvents(employee.shifts, employee.name, config, now_) ]

\* Calendar.to_ical(): the serialized bytes of a calendar
ToIcal(calendar) == <<"VCALENDAR", calendar>>

\* the content of a file opened for writing and not yet written
EmptyBytes == <<>>

(***************************************************************************)
(* change_detector.py                                                      *)
(***************************************************************************)

\* dict.get(k): None when the key is absent
Get(d, k) == IF k \in DOMAIN d THEN d[k] ELSE None

\* d[k] = v on a dict
Put(d, k, v) == [x \in DOMAIN d \cup {k} |-> IF x = k THEN v ELSE d[x]]

\* d.pop(k, None)
Pop(d, k) == [x \in DOMAIN d \ {k} |-> d[x]]

\* the state _load_state returns when it does not return the file's content
DefaultState ==
    [excel_hash |-> None, employee_hashes |-> <<>>, last_sync |-> None]

\* The state file on disk is [kind, data]:
\*   "absent"       no such file
\*   "json"         parses; data is the parsed value (a dict)
\*   "garbage"      not JSON, an empty or half-written file included
\*                  (json.JSONDecodeError)
\*   "unreadable"   cannot be opened (IOError)
\*   "undecodable"  bytes that are not text in the default encoding
\*                  (UnicodeDecodeError, a ValueError that is neither
\*                  JSONDecodeError nor IOError)
AbsentFile == [kind |-> "absent", data |-> <<>>]
GarbageFile == [kind |-> "garbage", data |-> <<>>]
UnreadableFile == [kind |-> "unreadable", data |-> <<>>]
UndecodableFile == [kind |-> "undecodable", data |-> <<>>]
JsonFile(data) == [kind |-> "json", data |-> data]

\* ChangeDetector._load_state raises: the exception the except clause does
\* not name
LoadStateRaises(file) == file.kind = "undecodable"

\* ChangeDetector._load_state
LoadState(file) ==
    IF file.kind = "json" THEN file.data ELSE DefaultState

\* ChangeDetector._file_hash, _content_hash
FileHash(content) == Md5(content)
ContentHash(content) == Md5(content)

\* ChangeDetector.check_excel_changed on an existing file
CheckExcelChanged(state, excel_content) ==
    FileHash(excel_content) # Get(state, "excel_hash")

\* ChangeDetector.update_excel_hash on an existing file
UpdateExcelHash(state, excel_content) ==
    Put(state, "excel_hash", FileHash(excel_content))

\* ChangeDetector.detect_employee_changes
NewEmployees(current_employees, existing_files) ==
    current_employees \ existing_files

RemovedEmployees(current_employees, existing_files) ==
    existing_files \ current_employees

\* self.state["employee_hashes"] raises KeyError
HashesMissing(state) == "employee_hashes" \notin DOMAIN state

\* a detector that takes a calendar without a stored hash for unchanged:
\* not the program's, CorruptStateAllChanged tells the two apart
CheckCalendarChanged_MissingIsSame(state, filename, calendar_content) ==
    /\ filename \in DOMAIN state.employee_hashes
    /\ ContentHash(calendar_content) # state.employee_hashes[filename]

\* ChangeDetector.check_calendar_changed
CheckCalendarChanged(state, filename, calendar_content) ==
    ContentHash(calendar_content) # Get(state.employee_hashes, filename)

\* a detector that records no hash for a calendar it has written: not the
\* program's, SerialRunsKeepHashes tells the two apart
UpdateCalendarHash_Skip(state, filename, calendar_content) == state

\* ChangeDetector.update_calendar_hash
UpdateCalendarHash(state, filename, calendar_content) ==
    [state EXCEPT !.employee_hashes =
        Put(@, filename, ContentHash(calendar_content))]

\* a detector that keeps the hash of a removed employee: not the program's,
\* Removal tells the two apart
RemoveEmployeeHash_Keep(state, filename) == state

\* ChangeDetector.remove_employee_hash
RemoveEmployeeHash(state, filename) ==
    [state EXCEPT !.employee_hashes = Pop(@, filename)]

\* datetime.now().strftime("%Y%m%d_%H%M%S"): the clock at one-second
\* resolution; the name archive_removed_employee gives the archived file
ArchivedName(filename, now_) == <<DropSuffix4(filename), now_>>

\* ChangeDetector.finalize_sync: the stamp, before _save_state
StampLastSync(state, now_) == Put(state, "last_sync", <<now_>>)

\* get_existing_ics_files: the names of the directory that end in ".ics"
GetExistingIcsFiles(directory) ==
    {f \in DOMAIN directory : EndsWith(f, IcsSuffix)}

(***************************************************************************)
(* rooster_sync.py: the decisions of run_sync                              *)
(***************************************************************************)

\* a loop that ignores force: not the program's, WritePolicy tells the two
\* apart
ShouldSave_NoForce(is_new, has_changed, force) == is_new \/ has_changed

\* "if is_new or has_changed or force": the calendar is saved
ShouldSave(is_new, has_changed, force) == is_new \/ has_changed \/ force

\* "if not is_new and has_changed": the employee is reported updated
ReportUpdated(is_new, has_changed) == ~is_new /\ has_changed

\* the name run_sync reports a removed employee under
RemovedName(filename) == StrTitle(ReplaceUnderscores(DropSuffix4(filename)))

(***************************************************************************)
(* The inputs of the model: two shift-code configurations and a few        *)
(* spreadsheets                                                            *)
(***************************************************************************)

Jo == <<"J", "o">>
Al == <<"A", "l">>
PloegA == <<"P", "l", "o", "e", "g", " ", "A">>

DayShift ==
    [name |-> <<"D", "a", "y">>,
     start |-> <<"0", "8", ":", "0", "0">>,
     end |-> <<"1", "6", ":", "0", "0">>,
     spans_midnight |-> FALSE]

NightShift ==
    [name |-> <<"N", "i", "g", "h", "t">>,
     start |-> <<"2", "2", ":", "0", "0">>,
     end |-> <<"0", "6", ":", "0", "0">>,
     spans_midnight |-> TRUE]

\* a well-formed configuration
GoodConfig ==
    [timed_shifts |-> (<<"D">> :> DayShift @@ <<"N">> :> NightShift),
     allday_events |-> (<<"V">> :> [name |-> <<"V", "a", "c">>]),
     ignore_codes |-> {<<>>, <<" ">>},
     timezone |-> "Europe/Amsterdam",
     name_prefix |-> <<"W", "o", "r", "k">>]

\* the same with a malformed start time for the night shift
BadTimeConfig ==
    [GoodConfig EXCEPT
        !.timed_shifts = (<<"D">> :> DayShift @@
                          <<"N">> :> [NightShift EXCEPT
                                         !.start = <<"2", "2", "h">>])]

Configs == <<GoodConfig, BadTimeConfig>>

DateCell(d) == [kind |-> "datetime", v |-> d]
NumberCell(n) == [kind |-> "number", v |-> n]
StringCell(parses) == [kind |-> "string", parses |-> parses]
NoCell == [kind |-> "none"]

Row(group, name, cells) == [group |-> group, name |-> name, cells |-> cells]

TwoDates == <<DateCell(45663), NumberCell(45664)>>

\* Al (V) and Jo (D, N) in Ploeg A
SheetBoth ==
    [header |-> TwoDates,
     rows |-> << Row(PloegA, None, <<None, None>>),
                 Row(None, Al, <<<<"v">>, None>>),
                 Row(None, Jo, <<<<"D">>, <<"N">>>>) >>]

\* Jo's row deleted
SheetAlOnly ==
    [header |-> TwoDates,
     rows |-> << Row(PloegA, None, <<None, None>>),
                 Row(None, Al, <<<<"v">>, None>>) >>]

\* Jo's schedule changed: no night shift any more
SheetJoDay ==
    [header |-> TwoDates,
     rows |-> << Row(PloegA, None, <<None, None>>),
                 Row(None, Al, <<<<"v">>, None>>),
                 Row(None, Jo, <<<<"D">>, <<" ">>>>) >>]

\* a header row no date can be recovered from
SheetNoDates ==
    [header |-> <<NoCell, StringCell(<<>>)>>,
     rows |-> << Row(None, Al, <<<<"v">>, None>>) >>]

Sheets == <<SheetBoth, SheetAlOnly, SheetJoDay, SheetNoDates>>

NoExcel == 0

(***************************************************************************)
(* Bounds                                                                  *)
(***************************************************************************)

MaxRuns == 3
MaxRepeatRuns == 4
MaxCrashes == 1
MaxClock == 1

(***************************************************************************)
(* State                                                                   *)
(***************************************************************************)

VARIABLES
    excel,      \* the spreadsheet at the configured path: an index into
                \* Sheets, NoExcel when there is no file
    config,     \* the configuration the runs are given: an index into
                \* Configs
    outdir,     \* the output directory: filename -> bytes
    archive,    \* the archive directory: archived name -> bytes
    statefile,  \* .sync_state.json
    now,        \* the clock, in seconds
    run,        \* per process: the position and the locals of its run_sync
    runs,       \* the runs started so far
    crashes,    \* the runs killed so far
    limits,     \* how many runs and crashes the behaviour may hold
    overlapped, \* history: a run began while another one was in flight
    ws,         \* the employee rows of the worksheet the parser is given
    parse       \* the position and the locals of ExcelParser.parse, and
                \* the calendars generated from its snapshot

vars == <<excel, config, outdir, archive, statefile, now, run, runs, crashes,
          limits, overlapped, ws, parse>>

\* what the sync pipeline leaves alone
parser == <<ws, parse>>

\* what is kept of the process's previous run once it has ended, for as
\* long as the spreadsheet stays the same: how it ended and, of a run that
\* was killed after it had moved or opened a file, how it would have
\* classified the identities had it completed (if it could have)
NoLast ==
    [pc |-> "idle", touched |-> FALSE, completable |-> FALSE,
     new |-> {}, removed |-> {}, updated |-> {}]

\* no run yet: the locals of run_sync before the first call
NoRun ==
    [pc |-> "idle", force |-> FALSE, state |-> DefaultState,
     excel_changed |-> FALSE, employees |-> <<>>,
     new_employees |-> {}, removed_employees |-> {}, todo |-> {},
     idx |-> 1, calendar_bytes |-> EmptyBytes, is_new |-> FALSE,
     has_changed |-> FALSE,
     new_list |-> <<>>, removed_list |-> <<>>, updated_list |-> <<>>,
     unchanged_list |-> <<>>, error |-> "",
     \* history: what the run found and did
     file0 |-> AbsentFile, state0 |-> DefaultState, dir0 |-> <<>>,
     candidates |-> <<>>, written |-> <<>>, touched |-> FALSE,
     follows |-> "", last |-> NoLast]

\* the processes that run run_sync
Procs == DOMAIN run

Ended == {"idle", "done", "failed", "crashed"}

Running(p) == run[p].pc \notin Ended

NoneRunning == \A p \in Procs : ~Running(p)

\* nothing parsed yet: the locals of _parse_employees before the first row,
\* what the scan did with each row so far, the calendars generated from the
\* snapshot, and what is kept of the parse before this one
NoPrevious == [ws |-> <<>>, log |-> <<>>, employees |-> <<>>,
               calendars |-> <<>>]

NoParse ==
    [pc |-> "idle", row |-> 1, employees |-> <<>>, current_group |-> <<>>,
     log |-> <<>>, calendars |-> <<>>, parses |-> 1,
     previous |-> NoPrevious]

Init ==
    /\ excel \in 1..Len(Sheets)
    /\ config \in 1..Len(Configs)
    /\ outdir = <<>>
    /\ archive = <<>>
    /\ statefile \in {AbsentFile, UnreadableFile, UndecodableFile,
                      JsonFile(<<>>)}
    /\ Configs[config] = BadTimeConfig => statefile = AbsentFile
    /\ now = 0
    /\ run = [p \in {1} |-> NoRun]
    /\ runs = 0
    /\ crashes = 0
    /\ limits = [runs |-> MaxRuns, crashes |-> MaxCrashes]
    /\ overlapped = FALSE
    /\ ws = <<>>
    /\ parse = NoParse

Raise(r, exception) == [r EXCEPT !.pc = "failed", !.error = exception]

(***************************************************************************)
(* run_sync                                                                *)
(***************************************************************************)

\* lines 100-151: the ChangeDetector is constructed (the state file is
\* loaded), the spreadsheet must exist, check_excel_changed, parse_excel,
\* the output directory is listed, new and removed are the set differences
\* and the report lists start empty.  Nothing on disk is changed.
Begin(p, force) ==
    /\ run[p].pc = "idle"
    /\ runs < limits.runs
    /\ runs' = runs + 1
    /\ overlapped' = (overlapped \/ \E q \in Procs \ {p} : Running(q))
    /\ LET fresh == [run[p] EXCEPT
                        !.force = force,
                        !.file0 = statefile,
                        !.follows = run[p].last.pc]
           state == LoadState(statefile)
           employees == ParseExcel(Sheets[excel], Configs[config])
           existing_files == GetExistingIcsFiles(outdir)
           current_employees == DictKeys(employees)
           removed == RemovedEmployees(current_employees, existing_files)
       IN  run' = [run EXCEPT ![p] =
                IF LoadStateRaises(statefile)
                THEN Raise(fresh, "UnicodeDecodeError")
                ELSE IF excel = NoExcel
                THEN Raise(fresh, "FileNotFoundError")
                ELSE IF ParseRaises(Sheets[excel])
                THEN Raise(fresh, "ValueError")
                ELSE [fresh EXCEPT
                        !.state = state,
                        !.state0 = state,
                        !.excel_changed = CheckExcelChanged(state, excel),
                        !.employees = employees,
                        !.new_employees =
                            NewEmployees(current_employees, existing_files),
                        !.removed_employees = removed,
                        !.todo = removed,
                        !.dir0 = outdir,
                        !.pc = IF removed # {} THEN "archive"
                               ELSE IF employees # <<>> THEN "generate"
                               ELSE "finalize"]]
    /\ UNCHANGED <<excel, config, outdir, archive, statefile, now, crashes,
                   limits>>
    /\ UNCHANGED parser

\* where the run goes after a step of one of its two loops
AfterArchive(r, todo) ==
    IF todo # {} THEN "archive"
    ELSE IF r.employees # <<>> THEN "generate"
    ELSE "finalize"

AfterEmployee(r) ==
    IF r.idx < Len(r.employees) THEN "generate" ELSE "finalize"

\* the destination of shutil.move(source, dest): dest is created, or
\* replaced when a file of that name is there already
MoveInto(directory, dest, content) == Put(directory, dest, content)

\* lines 154-161, one iteration: archive_removed_employee(filename), then
\* the name is appended to removed_list.  The set is iterated in no
\* particular order.
ArchiveOne(p, filename) ==
    /\ run[p].pc = "archive"
    /\ filename \in run[p].todo
    /\ LET r == run[p]
           todo == r.todo \ {filename}
           next == [r EXCEPT !.todo = todo, !.pc = AfterArchive(r, todo)]
       IN  IF filename \notin DOMAIN outdir
           THEN \* "if not os.path.exists(source): return None"
                /\ run' = [run EXCEPT ![p] = next]
                /\ UNCHANGED <<outdir, archive>>
           ELSE /\ outdir' = Pop(outdir, filename)
                /\ archive' = MoveInto(archive, ArchivedName(filename, now),
                                       outdir[filename])
                /\ run' = [run EXCEPT ![p] =
                        IF HashesMissing(r.state)
                        THEN Raise([r EXCEPT !.todo = todo,
                                             !.touched = TRUE], "KeyError")
                        ELSE [next EXCEPT
                                !.touched = TRUE,
                                !.state = RemoveEmployeeHash(@, filename),
                                !.removed_list =
                                    Append(@, RemovedName(filename))]]
    /\ UNCHANGED <<excel, config, statefile, now, runs, crashes, limits>>
    /\ UNCHANGED <<overlapped, ws, parse>>

\* lines 164-186, one iteration up to the opening of the file: the calendar
\* is generated and serialized, is_new and has_changed are computed, a new
\* employee is listed; then either save_calendar opens the file for writing
\* (which empties it) or the employee is listed unchanged
GenerateOne(p) ==
    /\ run[p].pc = "generate"
    /\ LET r == run[p]
           filename == r.employees[r.idx].key
           employee == r.employees[r.idx].value
           calendar_bytes == ToIcal(GenerateCalendar(employee, Configs[config], now))
           is_new == filename \in r.new_employees
           has_changed ==
               CheckCalendarChanged(r.state, filename, calendar_bytes)
           listed == [r EXCEPT
                        !.calendar_bytes = calendar_bytes,
                        !.candidates = Put(@, filename, calendar_bytes),
                        !.is_new = is_new,
                        !.has_changed = has_changed,
                        !.new_list = IF is_new THEN Append(@, employee.name)
                                     ELSE @]
       IN  IF GenerateRaises(employee, Configs[config])
           THEN /\ run' = [run EXCEPT ![p] = Raise(r, "ValueError")]
                /\ UNCHANGED outdir
           ELSE IF HashesMissing(r.state)
           THEN /\ run' = [run EXCEPT ![p] = Raise(r, "KeyError")]
                /\ UNCHANGED outdir
           ELSE IF ShouldSave(is_new, has_changed, r.force)
           THEN /\ outdir' = Put(outdir, filename, EmptyBytes)
                /\ run' = [run EXCEPT ![p] = [listed EXCEPT
                                                 !.pc = "save",
                                                 !.touched = TRUE]]
           ELSE /\ run' = [run EXCEPT ![p] = [listed EXCEPT
                        !.unchanged_list = Append(@, employee.name),
                        !.idx = @ + 1,
                        !.pc = AfterEmployee(r)]]
                /\ UNCHANGED outdir
    /\ UNCHANGED <<excel, config, archive, statefile, now, runs, crashes, limits>>
    /\ UNCHANGED <<overlapped, ws, parse>>

\* a loop that persists the state after every file it writes: not the
\* program's, FailureLeavesState tells the two apart
SaveWrite_Persisting(p) ==
    /\ run[p].pc = "save"
    /\ LET r == run[p]
           filename == r.employees[r.idx].key
           employee == r.employees[r.idx].value
           state == UpdateCalendarHash(r.state, filename, r.calendar_bytes)
       IN  /\ outdir' = Put(outdir, filename, r.calendar_bytes)
           /\ statefile' = JsonFile(state)
           /\ run' = [run EXCEPT ![p] = [r EXCEPT
                    !.state = state,
                    !.updated_list =
                        IF ReportUpdated(r.is_new, r.has_changed)
                        THEN Append(@, employee.name) ELSE @,
                    !.written = Append(@, filename),
                    !.idx = @ + 1,
                    !.pc = AfterEmployee(r)]]
    /\ UNCHANGED <<excel, config, archive, now, runs, crashes, limits>>
    /\ UNCHANGED <<overlapped, ws, parse>>

\* lines 179-184: save_calendar writes the bytes and closes the file,
\* update_calendar_hash, and the employee is listed updated
SaveWrite(p) ==
    /\ run[p].pc = "save"
    /\ LET r == run[p]
           filename == r.employees[r.idx].key
           employee == r.employees[r.idx].value
       IN  /\ outdir' = Put(outdir, filename, r.calendar_bytes)
           /\ run' = [run EXCEPT ![p] = [r EXCEPT
                    !.state = UpdateCalendarHash(@, filename,
                                                 r.calendar_bytes),
                    !.updated_list =
                        IF ReportUpdated(r.is_new, r.has_changed)
                        THEN Append(@, employee.name) ELSE @,
                    !.written = Append(@, filename),
                    !.idx = @ + 1,
                    !.pc = AfterEmployee(r)]]
    /\ UNCHANGED <<excel, config, archive, statefile, now, runs, crashes, limits>>
    /\ UNCHANGED <<overlapped, ws, parse>>

\* lines 189-190 up to the opening of the state file: update_excel_hash,
\* finalize_sync stamps last_sync, _save_state opens the file for writing
\* (which empties it); a file the process may not open raises
Finalize(p) ==
    /\ run[p].pc = "finalize"
    /\ LET r == run[p]
           hashed == IF excel # NoExcel
                     THEN UpdateExcelHash(r.state, excel) ELSE r.state
           stamped == [r EXCEPT !.state = StampLastSync(hashed, now)]
       IN  \/ /\ statefile' = GarbageFile
              /\ run' = [run EXCEPT ![p] = [stamped EXCEPT
                                               !.pc = "save_state"]]
           \/ /\ statefile.kind = "unreadable"
              /\ UNCHANGED statefile
              /\ run' = [run EXCEPT ![p] = Raise(stamped, "PermissionError")]
    /\ UNCHANGED <<excel, config, outdir, archive, now, runs, crashes, limits>>
    /\ UNCHANGED <<overlapped, ws, parse>>

\* _save_state: json.dump writes the state and the file is closed; run_sync
\* builds the report and returns
SaveState(p) ==
    /\ run[p].pc = "save_state"
    /\ statefile' = JsonFile(run[p].state)
    /\ run' = [run EXCEPT ![p] = [@ EXCEPT !.pc = "done"]]
    /\ UNCHANGED <<excel, config, outdir, archive, now, runs, crashes, limits>>
    /\ UNCHANGED <<overlapped, ws, parse>>

(***************************************************************************)
(* The environment                                                         *)
(***************************************************************************)

\* the process is killed in the middle of a run
Crash(p) ==
    /\ Running(p)
    /\ crashes < limits.crashes
    /\ crashes' = crashes + 1
    /\ run' = [run EXCEPT ![p] = [@ EXCEPT !.pc = "crashed"]]
    /\ UNCHANGED <<excel, config, outdir, archive, statefile, now, runs, limits>>
    /\ UNCHANGED <<overlapped, ws, parse>>

Range(list) == {list[i] : i \in 1..Len(list)}

\* the identities a run has reported updated
UpdatedKeys(r) ==
    {k \in DictKeys(r.employees) :
        DictGet(r.employees, k).name \in Range(r.updated_list)}

\* a run that did not complete: whether its loops could have run to the
\* end, and the identities it would then have reported updated
WouldComplete(r) ==
    /\ ~HashesMissing(r.state0)
    /\ \A i \in 1..Len(r.employees) :
           ~GenerateRaises(r.employees[i].value, Configs[config])

WouldUpdate(r) ==
    {k \in DictKeys(r.employees) \ r.new_employees :
        CheckCalendarChanged(r.state0, k,
            ToIcal(GenerateCalendar(DictGet(r.employees, k), Configs[config], now)))}

\* the process is gone, its locals with it
Exit(p) ==
    /\ run[p].pc \in {"done", "failed", "crashed"}
    /\ LET r == run[p]
       IN  run' = [run EXCEPT ![p] = [NoRun EXCEPT !.last =
                IF r.pc = "crashed" /\ r.touched /\ WouldComplete(r)
                THEN [pc |-> r.pc, touched |-> TRUE, completable |-> TRUE,
                      new |-> r.new_employees,
                      removed |-> r.removed_employees,
                      updated |-> WouldUpdate(r)]
                ELSE [NoLast EXCEPT !.pc = r.pc]]]
    /\ UNCHANGED <<excel, config, outdir, archive, statefile, now, runs,
                   crashes, limits>>
    /\ UNCHANGED <<overlapped, ws, parse>>

\* between two runs the spreadsheet is replaced or removed; the next run is
\* then no rerun of the previous one
ChangeExcel(sheet) ==
    /\ \A p \in Procs : run[p].pc = "idle"
    /\ runs < limits.runs
    /\ sheet # excel
    /\ excel' = sheet
    /\ run' = [p \in Procs |-> [run[p] EXCEPT !.last = NoLast]]
    /\ UNCHANGED <<config, outdir, archive, statefile, now, runs, crashes,
                   limits>>
    /\ UNCHANGED <<overlapped, ws, parse>>

\* a second passes
Tick ==
    /\ \A p \in Procs : run[p].pc = "idle"
    /\ now < MaxClock
    /\ now' = now + 1
    /\ UNCHANGED <<excel, config, outdir, archive, statefile, run, runs,
                   crashes, limits>>
    /\ UNCHANGED <<overlapped, ws, parse>>

Next ==
    \/ \E p \in Procs, force \in BOOLEAN : Begin(p, force)
    \/ \E p \in Procs : \E filename \in run[p].todo : ArchiveOne(p, filename)
    \/ \E p \in Procs : GenerateOne(p)
    \/ \E p \in Procs : SaveWrite(p)
    \/ \E p \in Procs : Finalize(p)
    \/ \E p \in Procs : SaveState(p)
    \/ \E p \in Procs : Crash(p)
    \/ \E p \in Procs : Exit(p)
    \/ \E sheet \in 0..Len(Sheets) : ChangeExcel(sheet)
    \/ Tick

Spec == Init /\ [][Next]_vars

\* the same program, followed over one more run from a first installation:
\* a well-formed configuration and no state file yet
InitRepeat ==
    /\ excel = 1
    /\ config = 1
    /\ outdir = <<>>
    /\ archive = <<>>
    /\ statefile = AbsentFile
    /\ now = 0
    /\ run = [p \in {1} |-> NoRun]
    /\ runs = 0
    /\ crashes = 0
    /\ limits = [runs |-> MaxRepeatRuns, crashes |-> MaxCrashes]
    /\ overlapped = FALSE
    /\ ws = <<>>
    /\ parse = NoParse

SpecRepeat == InitRepeat /\ [][Next]_vars

(***************************************************************************)
(* The parser and the generator on their own: a worksheet is scanned row   *)
(* by row, a calendar is generated for every employee of the snapshot, the *)
(* worksheet is edited and parsed again                                    *)
(***************************************************************************)

MaxRows == 3
MaxParses == 2

PloegB == <<"P", "l", "o", "e", "g", " ", "B">>

\* a row whose group cell is a marker, with a name and a shift filled in
MarkerRow == Row(PloegA, Al, <<<<"D">>, None>>)

\* Jo with a day shift, and the same name in capitals
JoRow == Row(None, Jo, <<<<"D">>, None>>)
JoUpperRow == Row(None, StrUpper(Jo), <<<<"D">>, None>>)

\* a row whose name cell looks like a group header
NameMarkerRow == Row(None, PloegB, <<None, None>>)

\* Al, in a row whose group cell is filled but is no marker
OtherGroupRow == Row(<<"x">>, Al, <<<<"v">>, None>>)

\* Jo with no recognized shift
NoShiftRow == Row(None, Jo, <<<<"?">>, None>>)

RowKinds == {MarkerRow, JoRow, JoUpperRow, NameMarkerRow, OtherGroupRow,
             NoShiftRow}

Worksheets == UNION {[1..n -> RowKinds] : n \in 0..MaxRows}

InitParse ==
    /\ excel = 1
    /\ config = 1
    /\ outdir = <<>>
    /\ archive = <<>>
    /\ statefile = AbsentFile
    /\ now = 0
    /\ run = [p \in {1} |-> NoRun]
    /\ runs = 0
    /\ crashes = 0
    /\ limits = [runs |-> 0, crashes |-> 0]
    /\ overlapped = FALSE
    /\ ws \in Worksheets
    /\ parse = [NoParse EXCEPT !.pc = "scan"]

sync == <<excel, config, outdir, archive, statefile, run, runs, crashes,
          limits, overlapped>>

\* _parse_employees, one iteration of "for row in range(...)"
ScanNext ==
    /\ parse.pc = "scan"
    /\ parse.row <= Len(ws)
    /\ LET row == ws[parse.row]
           after == ScanRow(parse.employees, parse.current_group, row,
                            ParseDates(TwoDates), Configs[config])
       IN  parse' = [parse EXCEPT
                !.row = @ + 1,
                !.employees = after.employees,
                !.current_group = after.current_group,
                !.log = Append(@,
                    [key |-> after.key,
                     name |-> Strip(row.name),
                     group |-> IF after.key = None THEN None
                               ELSE DictGet(after.employees, after.key).group,
                     employee |-> IF after.key = None THEN None
                                  ELSE DictGet(after.employees, after.key),
                     current_group |-> after.current_group])]
    /\ UNCHANGED <<sync, now, ws>>

\* the scan is over and _parse_employees returns; run_sync lines 164-167:
\* a calendar is generated and serialized for every employee of the snapshot
GenerateAll ==
    /\ parse.pc = "scan"
    /\ parse.row > Len(ws)
    /\ parse' = [parse EXCEPT
            !.pc = "done",
            !.calendars =
                [k \in DictKeys(parse.employees) |->
                    ToIcal(GenerateCalendar(DictGet(parse.employees, k),
                                            Configs[config], now))]]
    /\ UNCHANGED <<sync, now, ws>>

\* the parse after an edit of the worksheet starts from nothing; what the
\* parse before it found is kept for comparison
Reparse ==
    [NoParse EXCEPT
        !.pc = "scan",
        !.parses = parse.parses + 1,
        !.previous = [ws |-> ws, log |-> parse.log,
                      employees |-> parse.employees,
                      calendars |-> parse.calendars]]

Editable ==
    /\ parse.pc = "done"
    /\ parse.parses < MaxParses

\* between two parses a row is inserted, deleted or replaced
InsertRow(i, row) ==
    /\ Editable
    /\ Len(ws) < MaxRows
    /\ i \in 1..(Len(ws) + 1)
    /\ ws' = SubSeq(ws, 1, i - 1) \o <<row>> \o SubSeq(ws, i, Len(ws))
    /\ parse' = Reparse
    /\ UNCHANGED <<sync, now>>

DeleteRow(i) ==
    /\ Editable
    /\ i \in 1..Len(ws)
    /\ ws' = SubSeq(ws, 1, i - 1) \o SubSeq(ws, i + 1, Len(ws))
    /\ parse' = Reparse
    /\ UNCHANGED <<sync, now>>

ReplaceRow(i, row) ==
    /\ Editable
    /\ i \in 1..Len(ws)
    /\ row # ws[i]
    /\ ws' = [ws EXCEPT ![i] = row]
    /\ parse' = Reparse
    /\ UNCHANGED <<sync, now>>

NextParse ==
    \/ ScanNext
    \/ GenerateAll
    \/ \E i \in 1..(MaxRows + 1), row \in RowKinds : InsertRow(i, row)
    \/ \E i \in 1..MaxRows : DeleteRow(i)
    \/ \E i \in 1..MaxRows, row \in RowKinds : ReplaceRow(i, row)
    \/ Tick

SpecParse == InitParse /\ [][NextParse]_vars

(***************************************************************************)
(* Two invocations of run_sync that may overlap: nothing in the code keeps *)
(* a second process from starting while the first is in flight.  Every run *)
(* runs to its end here.                                                   *)
(***************************************************************************)

MaxOverlapRuns == 2

InitOverlap ==
    /\ excel = 1
    /\ config = 1
    /\ outdir = <<>>
    /\ archive = <<>>
    /\ statefile = AbsentFile
    /\ now = 0
    /\ run = [p \in {1, 2} |-> NoRun]
    /\ runs = 0
    /\ crashes = 0
    /\ limits = [runs |-> MaxOverlapRuns, crashes |-> 0]
    /\ overlapped = FALSE
    /\ ws = <<>>
    /\ parse = NoParse

\* a second passes while a run is in flight
TickInFlight ==
    /\ \E p \in Procs : Running(p)
    /\ now < MaxClock
    /\ now' = now + 1
    /\ UNCHANGED <<excel, config, outdir, archive, statefile, run, runs,
                   crashes, limits, overlapped, ws, parse>>

NextOverlap ==
    \/ \E p \in Procs, force \in BOOLEAN : Begin(p, force)
    \/ \E p \in Procs : \E filename \in run[p].todo : ArchiveOne(p, filename)
    \/ \E p \in Procs : GenerateOne(p)
    \/ \E p \in Procs : SaveWrite(p)
    \/ \E p \in Procs : Finalize(p)
    \/ \E p \in Procs : SaveState(p)
    \/ \E p \in Procs : Exit(p)
    \/ \E sheet \in 0..Len(Sheets) : ChangeExcel(sheet)
    \/ Tick
    \/ TickInFlight

SpecOverlap == InitOverlap /\ [][NextOverlap]_vars

(***************************************************************************)
(* Properties                                                              *)
(***************************************************************************)

\* the display names of the snapshot, in the order of the loop
Names(r) == [i \in 1..Len(r.employees) |-> r.employees[i].value.name]

Count(list, x) == Cardinality({i \in 1..Len(list) : list[i] = x})

\* in how many places of the four report lists a name stands
Mentions(r, name) ==
    Count(r.new_list, name) + Count(r.removed_list, name)
        + Count(r.updated_list, name) + Count(r.unchanged_list, name)

\* the identities that had a file when the directory was listed and are not
\* in the snapshot
Gone(r) == DOMAIN r.dir0 \ DictKeys(r.employees)

\* the bytes held by the files of a directory
Contents(directory) == {directory[f] : f \in DOMAIN directory}

\* C1 (idempotence): a run with force = false that directly follows a
\* completed run of the same spreadsheet writes no file and reports every
\* identity of the snapshot unchanged, and none new, removed or updated.
Idempotence ==
    \A p \in Procs :
        LET r == run[p]
        IN  (r.pc = "done" /\ r.follows = "done" /\ ~r.force) =>
                /\ r.written = <<>>
                /\ r.new_list = <<>>
                /\ r.removed_list = <<>>
                /\ r.updated_list = <<>>
                /\ r.unchanged_list = Names(r)

\* C2 (partition completeness): when a run has completed, every identity of
\* the snapshot and every identity that had a file before the run stands in
\* exactly one of the four report lists.
PartitionComplete ==
    \A p \in Procs :
        LET r == run[p]
        IN  r.pc = "done" =>
                /\ \A k \in DictKeys(r.employees) :
                       Mentions(r, DictGet(r.employees, k).name) = 1
                /\ \A k \in Gone(r) : Mentions(r, RemovedName(k)) = 1

\* C3 (crash safety): a completed run that directly follows, on the same
\* spreadsheet, a run killed after it had moved or opened a file reports
\* new, removed and updated exactly the identities the killed run would have
\* reported so.
CrashSafety ==
    \A p \in Procs :
        LET r == run[p]
        IN  (r.pc = "done" /\ r.follows = "crashed" /\ r.last.touched
                /\ r.last.completable) =>
                /\ r.new_employees = r.last.new
                /\ r.removed_employees = r.last.removed
                /\ UpdatedKeys(r) = r.last.updated

\* C4 (write policy): for every identity the loop is through with, the file
\* was written if and only if there was no file of that name when the
\* directory was listed, or the hash of the candidate bytes differs from the
\* hash the state was loaded with, or force is set; when it was not written
\* the file and the stored hash are what they were and the employee is
\* listed unchanged.
WritePolicy ==
    \A p \in Procs :
        LET r == run[p]
        IN  \A i \in 1..(r.idx - 1) :
                LET k == r.employees[i].key
                    name == r.employees[i].value.name
                    stored == Get(r.state0.employee_hashes, k)
                    was_written == k \in Range(r.written)
                IN  /\ was_written <=>
                           \/ k \notin DOMAIN r.dir0
                           \/ ContentHash(r.candidates[k]) # stored
                           \/ r.force
                    /\ ~was_written =>
                           /\ k \in DOMAIN outdir
                           /\ outdir[k] = r.dir0[k]
                           /\ Get(r.state.employee_hashes, k) = stored
                           /\ Count(r.unchanged_list, name) = 1

\* a completed run without force that wrote one file and left another
WritePolicyWitness ==
    \E p \in Procs :
        /\ run[p].pc = "done"
        /\ ~run[p].force
        /\ run[p].written # <<>>
        /\ run[p].unchanged_list # <<>>

\* C5 (removal): when a run has completed, every identity that had a file
\* before the run and is not in the snapshot has no active file, has a file
\* in the archive, is listed removed and has no hash in the persisted state.
Removal ==
    \A p \in Procs :
        LET r == run[p]
        IN  r.pc = "done" =>
                \A k \in Gone(r) :
                    /\ k \notin DOMAIN outdir
                    /\ \E a \in DOMAIN archive : a[1] = DropSuffix4(k)
                    /\ Count(r.removed_list, RemovedName(k)) = 1
                    /\ statefile.kind = "json"
                    /\ "employee_hashes" \in DOMAIN statefile.data
                    /\ k \notin DOMAIN statefile.data.employee_hashes

\* a completed run that removed an identity whose hash the state held
RemovalWitness ==
    \E p \in Procs :
        /\ run[p].pc = "done"
        /\ \E k \in Gone(run[p]) : k \in DOMAIN run[p].state0.employee_hashes

\* C6 (archive safety): whenever archive_removed_employee moves a file, the
\* archived file holds what the active file held, the active file is gone,
\* and every content a file of the two directories held before the call is
\* still held by a file after it.
ArchiveSafety ==
    [][ \A p \in Procs : \A f \in run[p].todo :
            (ArchiveOne(p, f) /\ f \in DOMAIN outdir) =>
                /\ archive'[ArchivedName(f, now)] = outdir[f]
                /\ f \notin DOMAIN outdir'
                /\ Contents(outdir) \cup Contents(archive)
                       \subseteq Contents(outdir') \cup Contents(archive')
      ]_vars

\* C7 (failure leaves the state untouched): when run_sync has raised, the
\* state file is what it was when the run began.
FailureLeavesState ==
    \A p \in Procs :
        run[p].pc = "failed" => statefile = run[p].file0

\* a run that raised on a malformed time string after it had written a file
FailureWitness ==
    \E p \in Procs :
        /\ run[p].pc = "failed"
        /\ run[p].error = "ValueError"
        /\ run[p].written # <<>>

\* C8 (atomic persistence): when the process is killed, the state file is
\* the complete state it was before the run or the complete new state.
AtomicPersistence ==
    \A p \in Procs :
        run[p].pc = "crashed" =>
            \/ statefile = run[p].file0
            \/ statefile = JsonFile(run[p].state)

\* C9 (state load never fatal): no run raises because of what the state file
\* holds, neither when the ChangeDetector is constructed nor later.
StateLoadNeverFatal ==
    \A p \in Procs : run[p].error \notin {"UnicodeDecodeError", "KeyError"}

StoredRows(log, name, group) ==
    {i \in 1..Len(log) :
        log[i].key # None /\ log[i].name = name /\ log[i].group = group}

\* C11 (identity-key stability): an employee who stands, under the same
\* name and in the same group, in one row of the worksheet before the edit
\* and in one row of the worksheet after it is stored under the same key by
\* both parses.
KeyStability ==
    parse.pc = "done" =>
        \A i \in 1..Len(parse.previous.log), j \in 1..Len(parse.log) :
            LET before == parse.previous.log[i]
                after == parse.log[j]
            IN  (/\ StoredRows(parse.previous.log, before.name,
                               before.group) = {i}
                 /\ StoredRows(parse.log, before.name, before.group) = {j})
                    => after.key = before.key


\* the rows scanned so far that stored an employee
Stored(log) == {i \in 1..Len(log) : log[i].key # None}

\* C12 (collision re-keying): at every point of the scan, a row whose
\* filename was taken is stored under the filename extended with the
\* normalized current group, its display name annotated with the group; and
\* every row that stored an employee still has its own entry in the
\* snapshot: no two rows share a key and each entry is as its row stored it.
RekeyKeepsEveryRow ==
    LET log == parse.log
    IN  /\ \A j \in Stored(log) :
               LET filename == EmployeeFilename(log[j].name)
                   taken == \E i \in Stored(log) :
                                i < j /\ log[i].key = filename
               IN  IF taken
                   THEN /\ log[j].key =
                               DropSuffix4(filename) \o <<"_">>
                                   \o SubUnsafeChars(StrLower(log[j].group))
                                   \o IcsSuffix
                        /\ log[j].employee.name =
                               log[j].name \o <<" ", "(">> \o log[j].group
                                   \o <<")">>
                   ELSE /\ log[j].key = filename
                        /\ log[j].employee.name = log[j].name
        /\ \A i, j \in Stored(log) : i # j => log[i].key # log[j].key
        /\ \A i \in Stored(log) :
               /\ log[i].key \in DictKeys(parse.employees)
               /\ DictGet(parse.employees, log[i].key) = log[i].employee


\* C13 (build determinism): an employee who is the same, under the same
\* key, in the snapshots of two parses gets byte-identical calendars from
\* the two generations, whenever they take place.
BuildDeterminism ==
    parse.pc = "done" =>
        \A k \in DOMAIN parse.calendars \cap DOMAIN parse.previous.calendars :
            DictGet(parse.employees, k) = DictGet(parse.previous.employees, k)
                => parse.calendars[k] = parse.previous.calendars[k]

\* the events of a serialized calendar
EventsOf(calendar_bytes) ==
    {calendar_bytes[2].events[i] : i \in 1..Len(calendar_bytes[2].events)}

\* C14 (event identifier): two events generated under the same identity
\* key for the same date and the same shift code have the same UID, whatever
\* else differs between the two employees.
UidFromKeyDateCode ==
    parse.pc = "done" =>
        \A k \in DOMAIN parse.calendars \cap DOMAIN parse.previous.calendars :
            \A e1 \in EventsOf(parse.previous.calendars[k]),
               e2 \in EventsOf(parse.calendars[k]) :
                (e1.uid[1] = e2.uid[1] /\ e1.uid[2] = e2.uid[2])
                    => e1.uid = e2.uid


\* C15 (write atomicity): in a run no identity's file is written twice, and
\* at every point of a run, a killed run included, the file of every
\* identity of the snapshot holds what it held when the run listed the
\* directory or the complete document the run generated for it.
WriteAtomicity ==
    \A p \in Procs :
        LET r == run[p]
        IN  /\ \A k \in Range(r.written) : Count(r.written, k) = 1
            /\ \A k \in DictKeys(r.employees) \cap DOMAIN outdir :
                   \/ k \in DOMAIN r.dir0 /\ outdir[k] = r.dir0[k]
                   \/ k \in DOMAIN r.candidates
                          /\ outdir[k] = r.candidates[k]

\* C18 (disk and snapshot agree): when a run without force has completed,
\* every calendar file of the output directory belongs to an identity of
\* the snapshot and holds the document the run generated for it, and the
\* persisted hash of that identity is the hash of the file's content.
DiskMatchesSnapshot ==
    \A p \in Procs :
        LET r == run[p]
        IN  (r.pc = "done" /\ ~r.force) =>
                \A k \in GetExistingIcsFiles(outdir) :
                    /\ k \in DictKeys(r.employees)
                    /\ outdir[k] = r.candidates[k]
                    /\ statefile.kind = "json"
                    /\ k \in DOMAIN statefile.data.employee_hashes
                    /\ statefile.data.employee_hashes[k] =
                           ContentHash(outdir[k])

\* C19 (no stale hashes): when a run has completed, the persisted
\* employee_hashes, the snapshot and the output directory hold the same
\* keys.
NoStaleHashes ==
    \A p \in Procs :
        LET r == run[p]
        IN  r.pc = "done" =>
                /\ statefile.kind = "json"
                /\ DOMAIN statefile.data.employee_hashes
                       = DictKeys(r.employees)
                /\ DictKeys(r.employees) = GetExistingIcsFiles(outdir)

\* C20 (archives accumulate): no step replaces or removes a file of the
\* archive directory: every archived file is still there after the step,
\* with the content it had.
ArchivesAccumulate ==
    [][ \A a \in DOMAIN archive :
            a \in DOMAIN archive' /\ archive'[a] = archive[a] ]_vars


\* a row whose group cell is a group marker
GroupCellMarks(row) == row.group # None /\ IsGroupHeader(Strip(row.group))

\* a row whose group cell is no marker and whose name cell looks like one
NameCellMarks(row) ==
    /\ ~GroupCellMarks(row)
    /\ row.name # None
    /\ StartsWith(StrUpper(Strip(row.name)), PLOEG)

\* the rows that count as group markers: by their group cell, and by their
\* name cell too when `names` is set
Marks(row, names) == GroupCellMarks(row) \/ (names /\ NameCellMarks(row))

MarkerText(row) ==
    IF GroupCellMarks(row) THEN Strip(row.group) ELSE Strip(row.name)

\* the text of the most recent marker row above row i, "" when there is none
GroupAbove(rows, i, names) ==
    LET above == {j \in 1..(i - 1) : Marks(rows[j], names)}
    IN  IF above = {} THEN <<>>
        ELSE MarkerText(rows[CHOOSE j \in above : \A h \in above : h <= j])

\* the scan so far follows the group state machine with those marker rows:
\* an employee is recorded with the text of the most recent marker row above
\* it, a marker row sets the current group to its text and stores no
\* employee, and any other row leaves the current group as it was
GroupMachine(names) ==
    \A i \in 1..Len(parse.log) :
        LET entry == parse.log[i]
            before == IF i = 1 THEN <<>> ELSE parse.log[i - 1].current_group
        IN  /\ entry.key # None => entry.group = GroupAbove(ws, i, names)
            /\ Marks(ws[i], names) =>
                   /\ entry.key = None
                   /\ entry.current_group = MarkerText(ws[i])
            /\ ~Marks(ws[i], names) => entry.current_group = before

\* C16 as claimed (group scan state machine): the marker rows are the rows
\* whose group cell is a marker; the group recorded for an employee is the
\* text of the most recent one above it, such a row stores no employee, and
\* a row whose group cell is no marker leaves the current group unchanged.
GroupFromGroupCells == GroupMachine(FALSE)

\* C16 as amended: the same state machine, where a row whose name cell
\* starts with PLOEG (and whose group cell is no marker) is a marker row
\* too and sets the current group to its name.
GroupFromMarkers == GroupMachine(TRUE)

\* an employee recorded in the group a name cell set, below a row whose
\* group cell is a marker and whose name and shift cells are filled
GroupMachineWitness ==
    \E i, j \in 1..Len(parse.log) :
        /\ parse.log[i].key # None
        /\ parse.log[i].group = PloegB
        /\ ws[j] = MarkerRow
        /\ j < i


\* the per-employee hashes the state file holds
PersistedHashes == LoadState(statefile).employee_hashes

\* every persisted hash is the hash of the calendar file of its key, and
\* every calendar file has one
HashesMatchFiles ==
    /\ \A k \in DOMAIN PersistedHashes :
           /\ k \in DOMAIN outdir
           /\ PersistedHashes[k] = ContentHash(outdir[k])
    /\ \A k \in GetExistingIcsFiles(outdir) : k \in DOMAIN PersistedHashes

=============================================================================
